---- MODULE Spec2Model ----
(***************************************************************************)
(* Model of the KMIT Vichaar backend (src/api/index.py): a Flask relay in  *)
(* front of the KMIT API with an SQLite student directory cache.           *)
(*                                                                         *)
(* Strings are sequences of ASCII codes, so that strip(), lower(), LIKE    *)
(* and the BINARY collation of ORDER BY are computed, not assumed.         *)
(* Python / JSON / SQL values are tagged records.                          *)
(***************************************************************************)
EXTENDS Integers, Sequences, FiniteSets, TLC

VARIABLES db, req, resp, calls, now, upserts

vars == <<db, req, resp, calls, now, upserts>>

(***************************************************************************)
(* Values                                                                  *)
(***************************************************************************)
Null == [t |-> "null"]
Text(s) == [t |-> "text", s |-> s]
IntV(n) == [t |-> "int", n |-> n]
BoolV(b) == [t |-> "bool", b |-> b]
Dict(f) == [t |-> "dict", d |-> f]
EmptyDict == Dict([k \in {} |-> Null])

\* Python truthiness (bool(x)).
Truthy(v) ==
    CASE v.t = "null" -> FALSE
      [] v.t = "text" -> v.s # <<>>
      [] v.t = "int" -> v.n # 0
      [] v.t = "bool" -> v.b
      [] v.t = "dict" -> DOMAIN v.d # {}
      [] OTHER -> TRUE

\* dict.get(k) with the default None.
Get(v, k) == IF k \in DOMAIN v.d THEN v.d[k] ELSE Null

\* dict.get(k, default)
GetDefault(v, k, default) == IF k \in DOMAIN v.d THEN v.d[k] ELSE default

(***************************************************************************)
(* Strings                                                                 *)
(***************************************************************************)
IsSpace(c) == c \in {9, 10, 11, 12, 13, 32}

\* ASCII lower-casing of one character, as str.lower() and SQLite's LIKE do.
LowerChar(c) == IF c >= 65 /\ c <= 90 THEN c + 32 ELSE c

Lower(s) == [i \in 1..Len(s) |-> LowerChar(s[i])]

RECURSIVE LStrip(_)
LStrip(s) == IF s # <<>> /\ IsSpace(Head(s)) THEN LStrip(Tail(s)) ELSE s

RECURSIVE RStrip(_)
RStrip(s) ==
    IF s # <<>> /\ IsSpace(s[Len(s)]) THEN RStrip(SubSeq(s, 1, Len(s) - 1)) ELSE s


\* Strip that strips nothing.
MutStrip(s) == s

\* str.strip()
Strip(s) == RStrip(LStrip(s))

\* Python's  a in b  on strings.
Contains(b, a) ==
    \E i \in 0..(Len(b) - Len(a)) : SubSeq(b, i + 1, i + Len(a)) = a

\* SQLite's  s LIKE pat : % matches any run, _ any one character, letters
\* compare case-insensitively.
RECURSIVE LikeMatch(_, _)
LikeMatch(pat, s) ==
    IF pat = <<>> THEN s = <<>>
    ELSE IF Head(pat) = 37
         THEN LikeMatch(Tail(pat), s) \/ (s # <<>> /\ LikeMatch(pat, Tail(s)))
         ELSE /\ s # <<>>
              /\ (Head(pat) = 95 \/ LowerChar(Head(pat)) = LowerChar(Head(s)))
              /\ LikeMatch(Tail(pat), Tail(s))

\* column LIKE ?  on a column value: NULL LIKE x is NULL, which WHERE and
\* CASE WHEN treat as false.
Like(v, pat) == v.t = "text" /\ LikeMatch(pat, v.s)

\* BINARY collation: bytewise comparison, a proper prefix sorts first.
RECURSIVE StrLess(_, _)
StrLess(a, b) ==
    IF b = <<>> THEN FALSE
    ELSE IF a = <<>> THEN TRUE
    ELSE IF Head(a) # Head(b) THEN Head(a) < Head(b)
    ELSE StrLess(Tail(a), Tail(b))

\* str(x) of a column value that is text or None.
Str(v) == IF v.t = "text" THEN v.s ELSE <<78, 111, 110, 101>>

\* ORDER BY name ASC on column values: NULL sorts before every text.
ValLess(u, v) ==
    IF u.t = "null" THEN v.t # "null"
    ELSE v.t # "null" /\ StrLess(u.s, v.s)

(***************************************************************************)
(* The SQLite database                                                     *)
(***************************************************************************)
\* DATABASE = ':memory:'
DATABASE == ":memory:"

\* LIMIT 20 of the search query.
SearchLimit == 20

\* A database without any table: what sqlite3 hands out for a new ':memory:'
\* connection.
EmptyDb == [tables |-> {}, students |-> {}, search_history |-> <<>>, lastId |-> 0]

\* sqlite3.connect(DATABASE): every connection to ':memory:' is a new,
\* private, empty database; a file name opens what earlier connections
\* committed (stored).
Connect(stored) == IF DATABASE = ":memory:" THEN EmptyDb ELSE stored

\* conn.commit(); conn.close(): what later connections find. A private
\* in-memory database is destroyed when its connection closes.
CommitClose(stored, conn) == IF DATABASE = ":memory:" THEN stored ELSE conn

\* get_db()
get_db(stored) == Connect(stored)

\* The three CREATE TABLE IF NOT EXISTS statements of init_db, on its connection.
CreateTables(conn) ==
    [conn EXCEPT !.tables = @ \cup {"students", "search_history", "user_sessions"}]

\* init_db(): connect, create the tables, commit, close.
init_db(stored) == CommitClose(stored, CreateTables(Connect(stored)))

\* Columns of students written from the provider payload by a plain
\* student.get(key).
FlatKey ==
    [name |-> "name", hall_ticket |-> "htno", roll_number |-> "rollno",
     year |-> "currentyear", semester |-> "currentsemester",
     email |-> "student_email", phone |-> "phone",
     admission_year |-> "admissionyear", dob |-> "dob",
     father_name |-> "fathername", father_mobile |-> "fathermobile",
     gender |-> "gender", qr_key |-> "qr_key", student_type |-> "studenttype",
     status |-> "status"]

\* Columns written from a nested object:
\* student.get(k, {}).get(sub) if student.get(k) else None
NestedKey ==
    [branch |-> <<"branch", "name">>, branch_code |-> <<"branch", "code">>,
     course |-> <<"course", "name">>, section |-> <<"section", "name">>,
     regulation |-> <<"regulation", "name">>]

MappedCols == DOMAIN FlatKey \cup DOMAIN NestedKey

NotNullCols == {"name", "hall_ticket"}

\* The nested expression raises AttributeError when the value is truthy but
\* no dict.
NestedRaises(student, c) ==
    LET v == Get(student, NestedKey[c][1]) IN Truthy(v) /\ v.t # "dict"

MappedValue(student, c) ==
    IF c \in DOMAIN FlatKey THEN Get(student, FlatKey[c])
    ELSE LET v == Get(student, NestedKey[c][1])
         IN IF Truthy(v) THEN Get(v, NestedKey[c][2]) ELSE Null

\* sqlite3 cannot bind a dict as a statement parameter.
BindFails(v) == v.t = "dict"

\* The parameter tuple of the UPDATE / INSERT cannot be built or bound.
ParamsFail(student) ==
    \/ student.t # "dict"
    \/ \E c \in DOMAIN NestedKey : NestedRaises(student, c)
    \/ \E c \in MappedCols : BindFails(MappedValue(student, c))


\* ConstraintFails without the UNIQUE constraint of hall_ticket.
MutConstraintFails(r, others) ==
    \/ r["kmit_id"].t = "null"
    \/ \E c \in {"name", "hall_ticket"} : r[c].t = "null"
    \/ \E o \in others : o["kmit_id"] = r["kmit_id"]

\* NOT NULL and UNIQUE constraints of the students table, for row r written
\* next to the rows others.
ConstraintFails(r, others) ==
    \/ r["kmit_id"].t = "null"
    \/ \E c \in NotNullCols : r[c].t = "null"
    \/ \E o \in others : o["kmit_id"] = r["kmit_id"] \/ o["hall_ticket"] = r["hall_ticket"]

RowCols == MappedCols \cup {"id", "kmit_id", "last_updated", "created_at"}

UpdatedRow(r, student, t) ==
    [c \in RowCols |->
        IF c \in MappedCols THEN MappedValue(student, c)
        ELSE IF c = "last_updated" THEN IntV(t)
        ELSE r[c]]

InsertedRow(id, kmit_id, student, t) ==
    [c \in RowCols |->
        IF c \in MappedCols THEN MappedValue(student, c)
        ELSE IF c = "id" THEN IntV(id)
        ELSE IF c = "kmit_id" THEN kmit_id
        ELSE IntV(t)]

\* The UPDATE or INSERT of store_student_data on the connection conn at time
\* t, existing being what the SELECT before it found: ok = FALSE when the
\* statement raised (nothing is written).
WriteOnConn(conn, student_data, kmit_id, existing, t) ==
    LET student == GetDefault(student_data, "student", EmptyDict)
        rows == {r \in conn.students : r["kmit_id"] = kmit_id}
    IN  IF ParamsFail(student)
        THEN [ok |-> FALSE, db |-> conn]
        ELSE IF existing /\ rows = {}
        THEN [ok |-> TRUE, db |-> conn]
        ELSE IF existing
        THEN LET old == CHOOSE r \in rows : TRUE
                 new == UpdatedRow(old, student, t)
             IN  IF ConstraintFails(new, conn.students \ {old})
                 THEN [ok |-> FALSE, db |-> conn]
                 ELSE [ok |-> TRUE,
                       db |-> [conn EXCEPT !.students = (@ \ {old}) \cup {new}]]
        ELSE LET new == InsertedRow(conn.lastId + 1, kmit_id, student, t)
             IN  IF ConstraintFails(new, conn.students)
                 THEN [ok |-> FALSE, db |-> conn]
                 ELSE [ok |-> TRUE,
                       db |-> [conn EXCEPT !.students = @ \cup {new},
                                           !.lastId = @ + 1]]

\* SELECT id FROM students WHERE kmit_id = ? ; cursor.fetchone()
SelectExisting(conn, kmit_id) == \E r \in conn.students : r["kmit_id"] = kmit_id

\* The body of store_student_data on the connection conn at time t:
\* ok = FALSE when an exception was caught (nothing is committed).
StoreOnConn(conn, student_data, kmit_id, t) ==
    IF "students" \notin conn.tables
    THEN [ok |-> FALSE, db |-> conn]
    ELSE WriteOnConn(conn, student_data, kmit_id, SelectExisting(conn, kmit_id), t)

\* store_student_data(student_data, kmit_id): the database later connections
\* find afterwards. Every exception is caught and only printed.
store_student_data(stored, student_data, kmit_id, t) ==
    LET r == StoreOnConn(get_db(stored), student_data, kmit_id, t)
    IN  IF r.ok THEN CommitClose(stored, r.db) ELSE stored

(***************************************************************************)
(* search_students                                                         *)
(***************************************************************************)
\* f'%{query}%'
Pattern(query) == <<37>> \o query \o <<37>>

\* WHERE name LIKE ? OR hall_ticket LIKE ? OR roll_number LIKE ?
Matches(r, query) ==
    \/ Like(r["name"], Pattern(query))
    \/ Like(r["hall_ticket"], Pattern(query))
    \/ Like(r["roll_number"], Pattern(query))


\* Rank with the name match tested before the exact hall ticket.
MutRank(r, query) ==
    IF Like(r["name"], <<37>> \o query \o <<37>>) THEN 2
    ELSE IF r["hall_ticket"] = Text(query) THEN 1
    ELSE 3

\* CASE WHEN hall_ticket = ? THEN 1 WHEN name LIKE ? THEN 2 ELSE 3 END
Rank(r, query) ==
    IF r["hall_ticket"] = Text(query) THEN 1
    ELSE IF Like(r["name"], Pattern(query)) THEN 2
    ELSE 3

\* ORDER BY <rank>, name ASC. SQL leaves the order of rows with equal keys
\* open; tie stands for the order the engine happens to produce.
Before(r, o, query, tie) ==
    \/ Rank(r, query) < Rank(o, query)
    \/ /\ Rank(r, query) = Rank(o, query)
       /\ \/ ValLess(r["name"], o["name"])
          \/ /\ r["name"] = o["name"]
             /\ IF tie = "asc" THEN r["id"].n <= o["id"].n ELSE r["id"].n >= o["id"].n

RECURSIVE SortRows(_, _, _)
SortRows(S, query, tie) ==
    IF S = {} THEN <<>>
    ELSE LET first == CHOOSE r \in S : \A o \in S : Before(r, o, query, tie)
         IN  <<first>> \o SortRows(S \ {first}, query, tie)

\* The columns of the SELECT list.
SelectCols == (MappedCols \ {"qr_key"}) \cup {"kmit_id", "last_updated"}

\* dict(row): the SELECT list does not carry id, qr_key, created_at.
RowDict(r) == [c \in SelectCols |-> r[c]]


\* Limit that cuts nothing.
MutLimit(rows, n) == rows

\* LIMIT n
Limit(rows, n) == SubSeq(rows, 1, IF Len(rows) < n THEN Len(rows) ELSE n)

\* cursor.execute(SELECT ...); cursor.fetchall() on the rows of students.
SearchSelect(students, query, tie) ==
    Limit(SortRows({r \in students : Matches(r, query)}, query, tie), SearchLimit)

\* 'name' if any(query.lower() in str(row['name']).lower() ...) else 'hall_ticket'
SearchType(results, query) ==
    IF \E i \in 1..Len(results) : Contains(Lower(Str(results[i]["name"])), Lower(query))
    THEN "name" ELSE "hall_ticket"


\* LogEntry that logs the LIKE parameter in place of the query.
MutLogEntry(ip, query, results, t) ==
    [searcher_ip |-> ip, search_term |-> Pattern(query),
     search_type |-> SearchType(results, query),
     results_count |-> Len(results), searched_at |-> t]

LogEntry(ip, query, results, t) ==
    [searcher_ip |-> ip, search_term |-> query,
     search_type |-> SearchType(results, query),
     results_count |-> Len(results), searched_at |-> t]

\* The Flask response of a handler: HTTP status and the jsonify'd body
\* (a function from the keys present to their values).
Response(status, body) == [status |-> status, body |-> body]

\* The response is one of the success answers: {"success": True, ...}
HasSuccessBody(r) == "success" \in DOMAIN r.body /\ r.body.success

\* The INSERT INTO search_history raises sqlite3.OperationalError (database
\* is locked, disk is full, read-only file): the fault a search can meet.
LogFault == [kind |-> "logfault"]

\* The body of search_students on the connection conn: ok = TRUE when the
\* handler reached conn.commit(), with the response and the connection's
\* database afterwards. A statement on a missing table raises, and so does
\* the INSERT under fault = LogFault; both end in the 500 of the except
\* branch.
SearchOnConn(conn, rawq, ip, tie, t, fault) ==
    LET query == Strip(rawq)
    IN  IF query = <<>>
        THEN [ok |-> FALSE, db |-> conn,
              resp |-> Response(400, [success |-> FALSE,
                                      error |-> "Search query is required"])]
        ELSE IF {"students", "search_history"} \subseteq conn.tables /\ fault # LogFault
        THEN LET results == SearchSelect(conn.students, query, tie)
                 students == [i \in 1..Len(results) |-> RowDict(results[i])]
             IN  [ok |-> TRUE,
                  db |-> [conn EXCEPT !.search_history =
                                        Append(@, LogEntry(ip, query, results, t))],
                  resp |-> Response(200,
                             [success |-> TRUE,
                              data |-> [students |-> students,
                                        total_results |-> Len(students),
                                        query |-> query]])]
        ELSE [ok |-> FALSE, db |-> conn,
              resp |-> Response(500, [success |-> FALSE, error |-> "Search failed"])]

\* search_students(): rawq is request.args.get('q', ''). The database later
\* connections find afterwards, and the response.
search_students(stored, rawq, ip, tie, t, fault) ==
    LET r == SearchOnConn(get_db(stored), rawq, ip, tie, t, fault)
    IN  [db |-> IF r.ok THEN CommitClose(stored, r.db) ELSE stored, resp |-> r.resp]

(***************************************************************************)
(* Tokens and the upstream                                                 *)
(***************************************************************************)
NotJson == [t |-> "notjson"]

\* A token is the list of its '.'-separated segments (str.split('.') always
\* yields at least one). A segment is its length and the JSON value its
\* base64url text decodes to (NotJson when that is no JSON document).
Seg(len, json) == [len |-> len, json |-> json]
Tok(segs) == [t |-> "token", segs |-> segs]

\* payload += '=' * (4 - len(payload) % 4)
PadLen(len) == 4 - (len % 4)

\* base64.urlsafe_b64decode accepts len data characters followed by pad '=':
\* never a data length of 1 mod 4, otherwise the padding must reach a
\* multiple of 4 (padding beyond that is ignored).
Base64Ok(len, pad) ==
    /\ len % 4 # 1
    /\ (len % 4 = 0 \/ pad >= 4 - (len % 4))

\* Padding, base64 decoding and json.loads of one segment.
DecodeSegment(seg) ==
    IF Base64Ok(seg.len, PadLen(seg.len)) /\ seg.json # NotJson
    THEN [ok |-> TRUE, json |-> seg.json]
    ELSE [ok |-> FALSE, json |-> NotJson]

\* The token decoding of login and get_attendance (lines 220-232, 364-370):
\* kind is "sub" with the value of payload_data.get('sub'), "format" when the
\* token has not 3 segments, "error" when an exception was raised.
ExtractSub(token) ==
    IF token.t # "token" THEN [kind |-> "error", sub |-> Null]
    ELSE IF Len(token.segs) # 3 THEN [kind |-> "format", sub |-> Null]
    ELSE LET d == DecodeSegment(token.segs[2])
         IN  IF ~d.ok \/ d.json.t # "dict" THEN [kind |-> "error", sub |-> Null]
             ELSE [kind |-> "sub", sub |-> Get(d.json, "sub")]

\* jwt.decode(token, options={"verify_signature": False}) followed by
\* decoded.get('sub'): PyJWT wants 3 segments, a header and a payload that
\* are JSON objects, and a signature segment that is base64.
JwtDecodeSub(token) ==
    IF token.t # "token" \/ Len(token.segs) # 3 THEN [kind |-> "error", sub |-> Null]
    ELSE LET h == DecodeSegment(token.segs[1])
             d == DecodeSegment(token.segs[2])
         IN  IF \/ ~h.ok \/ h.json.t # "dict"
                \/ ~d.ok \/ d.json.t # "dict"
                \/ token.segs[3].len % 4 = 1
             THEN [kind |-> "error", sub |-> Null]
             ELSE [kind |-> "sub", sub |-> Get(d.json, "sub")]

\* An Authorization header: absent (Null) or its text, held as the part up
\* to and including the first space (prefix) and the token after it.
Header(prefix, token) == [t |-> "header", prefix |-> prefix, token |-> token]
EmptySeg == Seg(0, NotJson)
EmptyHeader == Header("", Tok(<<EmptySeg>>))

\* not auth_header
HeaderMissing(h) == h = Null \/ h = EmptyHeader

\* auth_header.startswith('Bearer ')
StartsWithBearer(h) == h.prefix = "Bearer "

\* auth_header.replace('Bearer ', '').split('.'): without the prefix
\* 'Bearer ' the other prefix stays in front of the first segment.
HeaderTokenReplace(h) ==
    IF h.prefix \in {"Bearer ", ""} THEN h.token
    ELSE Tok([i \in 1..Len(h.token.segs) |->
                IF i = 1 THEN Seg(h.token.segs[1].len + 6, NotJson) ELSE h.token.segs[i]])

\* What requests.get / requests.post ends with.
UpTimeout == [kind |-> "timeout"]
UpNetError == [kind |-> "neterror"]
UpResponse(status, body) == [kind |-> "response", status |-> status, body |-> body]

(***************************************************************************)
(* Endpoints. Each handler yields its response, the number of requests it  *)
(* sent to the upstream, and the database later connections find.          *)
(***************************************************************************)
Outcome(r, n, stored) == [resp |-> r, calls |-> n, db |-> stored]

\* x == False in Python: False and 0.
EqFalse(v) == (v.t = "bool" /\ ~v.b) \/ (v.t = "int" /\ v.n = 0)

\* The error text of a failed login: the upstream's message or error field,
\* else the generic text.
LoginErrorMessage(body, status, withError) ==
    IF body.t = "dict" /\ "message" \in DOMAIN body.d THEN body.d["message"]
    ELSE IF withError /\ body.t = "dict" /\ "error" \in DOMAIN body.d THEN body.d["error"]
    ELSE [t |-> "KMIT API error", status |-> status]

\* UpsertId that takes whatever sub the payload yields, without the test
\* 'if student_id'.
MutUpsertId(kmit_data) ==
    IF EqFalse(Get(kmit_data, "Error")) /\ "access_token" \in DOMAIN kmit_data.d
    THEN LET ex == ExtractSub(kmit_data.d["access_token"])
         IN  IF ex.kind = "sub" /\ ex.sub # Null THEN ex.sub ELSE Null
    ELSE Null

\* Lines 215-242 of login: the student_id login calls store_student_data
\* with, Null when it does not call it.
UpsertId(kmit_data) ==
    IF EqFalse(Get(kmit_data, "Error")) /\ "access_token" \in DOMAIN kmit_data.d
    THEN LET ex == ExtractSub(kmit_data.d["access_token"])
         IN  IF ex.kind = "sub" /\ Truthy(ex.sub) THEN ex.sub ELSE Null
    ELSE Null

\* Lines 215-242 of login: the cache write after a 201 with a JSON object.
LoginStore(stored, kmit_data, t) ==
    IF UpsertId(kmit_data) # Null
    THEN store_student_data(stored, kmit_data, UpsertId(kmit_data), t)
    ELSE stored

\* The same cache write with the statements of store_student_data applied to
\* the connection conn.
LoginStoreOnConn(conn, kmit_data, t) ==
    IF UpsertId(kmit_data) # Null
    THEN StoreOnConn(conn, kmit_data, UpsertId(kmit_data), t).db
    ELSE conn


\* LoginAnswer with a cache write whose failure reaches the caller: the
\* exception of a failed upsert ends in the 500 of login's except branch.
MutLoginAnswer(stored, kmit_data, t) ==
    LET ex == IF "access_token" \in DOMAIN kmit_data.d
              THEN ExtractSub(kmit_data.d["access_token"])
              ELSE [kind |-> "error", sub |-> Null]
    IN  IF /\ EqFalse(Get(kmit_data, "Error"))
           /\ ex.kind = "sub" /\ Truthy(ex.sub)
           /\ ~StoreOnConn(get_db(stored), kmit_data, ex.sub, t).ok
        THEN [resp |-> [status |-> 500, body |-> [success |-> FALSE, error |-> "Server error"]],
              calls |-> 1, db |-> stored]
        ELSE [resp |-> [status |-> 200,
                        body |-> [success |-> TRUE, message |-> "Login successful",
                                  data |-> kmit_data]],
              calls |-> 1, db |-> LoginStore(stored, kmit_data, t)]

\* Lines 214-248 of login: the cache write, then the answer, after a 201
\* whose body is the JSON object kmit_data.
LoginAnswer(stored, kmit_data, t) ==
    Outcome(Response(200, [success |-> TRUE, message |-> "Login successful",
                           data |-> kmit_data]),
            1, LoginStore(stored, kmit_data, t))

\* The status the data handlers take as success.
DataSuccessStatus == 200

\* The login handlers taking 200 as success, like the data handlers.
MutLoginSuccessStatus == DataSuccessStatus

\* The status the login handlers take as success.
LoginSuccessStatus == 201

\* login(): data is request.get_json(), up what requests.post ends with.
login(stored, data, up, t) ==
    IF data.t # "dict"
    THEN Outcome(Response(500, [success |-> FALSE, error |-> "Server error"]), 0, stored)
    ELSE IF up.kind = "timeout"
    THEN Outcome(Response(408, [success |-> FALSE, error |-> "Request timeout"]), 1, stored)
    ELSE IF up.kind = "neterror"
    THEN Outcome(Response(500, [success |-> FALSE, error |-> "Network error"]), 1, stored)
    ELSE IF up.status = LoginSuccessStatus
    THEN IF up.body = NotJson
         THEN Outcome(Response(400, [success |-> FALSE,
                                     error |-> "Invalid JSON response from KMIT API",
                                     details |-> up.body]), 1, stored)
         ELSE IF up.body.t # "dict"
         THEN Outcome(Response(500, [success |-> FALSE, error |-> "Server error"]), 1, stored)
         ELSE LoginAnswer(stored, up.body, t)
    ELSE Outcome(Response(400, [success |-> FALSE,
                                error |-> LoginErrorMessage(up.body, up.status, TRUE),
                                status_code |-> up.status,
                                details |-> up.body]), 1, stored)

LoginTokenKeys == {"username", "password", "application", "token"}

\* login_with_token_direct()
login_with_token_direct(stored, data, up) ==
    IF data.t # "dict"
    THEN Outcome(Response(500, [success |-> FALSE, error |-> "Server error"]), 0, stored)
    ELSE IF ~(LoginTokenKeys \subseteq DOMAIN data.d)
    THEN Outcome(Response(400, [success |-> FALSE, error |-> "Missing required fields"]),
                 0, stored)
    ELSE IF up.kind # "response"
    THEN Outcome(Response(500, [success |-> FALSE, error |-> "Server error"]), 1, stored)
    ELSE IF up.status = LoginSuccessStatus
    THEN IF up.body = NotJson
         THEN Outcome(Response(500, [success |-> FALSE, error |-> "Server error"]), 1, stored)
         ELSE Outcome(Response(200, [success |-> TRUE, data |-> up.body,
                                     message |-> "Login successful"]), 1, stored)
    ELSE Outcome(Response(400, [success |-> FALSE,
                                error |-> LoginErrorMessage(up.body, up.status, FALSE),
                                status_code |-> up.status,
                                details |-> up.body]), 1, stored)

\* get_attendance()
get_attendance(stored, auth, up) ==
    IF HeaderMissing(auth)
    THEN Outcome(Response(401, [success |-> FALSE, error |-> "No authorization token"]),
                 0, stored)
    ELSE LET ex == ExtractSub(HeaderTokenReplace(auth))
         IN  IF ex.kind = "format"
             THEN Outcome(Response(400, [success |-> FALSE, error |-> "Invalid token format"]),
                          0, stored)
             ELSE IF ex.kind = "error"
             THEN Outcome(Response(400, [success |-> FALSE, error |-> "Invalid token"]),
                          0, stored)
             ELSE IF up.kind # "response"
             THEN Outcome(Response(500, [success |-> FALSE, error |-> "Server error"]),
                          1, stored)
             ELSE IF up.status = DataSuccessStatus
             THEN IF up.body = NotJson
                  THEN Outcome(Response(400, [success |-> FALSE,
                                              error |-> "Invalid JSON response from KMIT API"]),
                               1, stored)
                  ELSE Outcome(Response(200, [success |-> TRUE, data |-> up.body,
                                              message |-> "Real attendance data fetched from KMIT"]),
                               1, stored)
             ELSE Outcome(Response(400, [success |-> FALSE,
                                         error |-> "Failed to fetch attendance",
                                         response |-> up.body]), 1, stored)

\* get_subject_attendance that sends its request a second time after a
\* timeout or a transport failure.
MutSubjectAttendanceRetry(stored, auth, up) ==
    IF ~HeaderMissing(auth) /\ up.kind # "response"
    THEN [resp |-> [status |-> 500, body |-> [success |-> FALSE, error |-> "Server error"]],
          calls |-> 2, db |-> stored]
    ELSE IF HeaderMissing(auth)
    THEN [resp |-> [status |-> 401,
                    body |-> [success |-> FALSE, error |-> "No authorization token"]],
          calls |-> 0, db |-> stored]
    ELSE IF up.status = 200 /\ up.body.t # "notjson"
    THEN [resp |-> [status |-> 200, body |-> [success |-> TRUE, data |-> up.body]],
          calls |-> 1, db |-> stored]
    ELSE [resp |-> [status |-> 400,
                    body |-> [success |-> FALSE,
                              error |-> "Failed to fetch subject attendance"]],
          calls |-> 1, db |-> stored]

\* get_subject_attendance()
get_subject_attendance(stored, auth, up) ==
    IF HeaderMissing(auth)
    THEN Outcome(Response(401, [success |-> FALSE, error |-> "No authorization token"]),
                 0, stored)
    ELSE IF up.kind # "response"
    THEN Outcome(Response(500, [success |-> FALSE, error |-> "Server error"]), 1, stored)
    ELSE IF up.status = DataSuccessStatus
    THEN IF up.body = NotJson
         THEN Outcome(Response(400, [success |-> FALSE,
                                     error |-> "Invalid JSON response from KMIT API"]),
                      1, stored)
         ELSE Outcome(Response(200, [success |-> TRUE, data |-> up.body,
                                     message |-> "Subject attendance fetched from KMIT"]),
                      1, stored)
    ELSE Outcome(Response(400, [success |-> FALSE,
                                error |-> "Failed to fetch subject attendance"]), 1, stored)


\* PlainRelay without the check of the Authorization header.
MutPlainRelay(stored, auth, up, what) ==
    IF up.kind # "response"
    THEN [resp |-> [status |-> 500, body |-> [success |-> FALSE, error |-> "Server error"]],
          calls |-> 1, db |-> stored]
    ELSE IF up.status = 200 /\ up.body.t # "notjson"
    THEN [resp |-> [status |-> 200, body |-> [success |-> TRUE, data |-> up.body]],
          calls |-> 1, db |-> stored]
    ELSE [resp |-> [status |-> 400, body |-> [success |-> FALSE, error |-> what]],
          calls |-> 1, db |-> stored]

\* get_notices_count() and get_student_profile_direct(): the same code but
\* for the URL and the error text (what).
PlainRelay(stored, auth, up, what) ==
    IF HeaderMissing(auth)
    THEN Outcome(Response(401, [success |-> FALSE, error |-> "No authorization token"]),
                 0, stored)
    ELSE IF up.kind # "response"
    THEN Outcome(Response(500, [success |-> FALSE, error |-> "Server error"]), 1, stored)
    ELSE IF up.status = DataSuccessStatus
    THEN IF up.body = NotJson
         THEN Outcome(Response(500, [success |-> FALSE, error |-> "Server error"]), 1, stored)
         ELSE Outcome(Response(200, [success |-> TRUE, data |-> up.body]), 1, stored)
    ELSE Outcome(Response(400, [success |-> FALSE, error |-> what]), 1, stored)

get_notices_count(stored, auth, up) ==
    PlainRelay(stored, auth, up, "Failed to fetch notices")

get_student_profile_direct(stored, auth, up) ==
    PlainRelay(stored, auth, up, "Failed to fetch profile")

\* get_internal_results(), get_semester_results() and get_timetable(): the
\* same code but for the URL.
JwtRelay(stored, auth, up) ==
    IF HeaderMissing(auth) \/ ~StartsWithBearer(auth)
    THEN Outcome(Response(401, [error |-> "Authorization header required"]), 0, stored)
    ELSE LET ex == JwtDecodeSub(auth.token)
         IN  IF ex.kind = "error"
             THEN Outcome(Response(401, [error |-> "Invalid token"]), 0, stored)
             ELSE IF ~Truthy(ex.sub)
             THEN Outcome(Response(401, [error |-> "Invalid token: no student ID"]), 0, stored)
             ELSE IF up.kind = "timeout"
             THEN Outcome(Response(504, [error |-> "Request timeout"]), 1, stored)
             ELSE IF up.kind = "neterror"
             THEN Outcome(Response(500, [error |-> "Internal server error"]), 1, stored)
             ELSE IF up.status = DataSuccessStatus
             THEN IF up.body = NotJson
                  THEN Outcome(Response(500, [error |-> "Internal server error"]), 1, stored)
                  ELSE Outcome(Response(200, [success |-> TRUE, data |-> up.body]), 1, stored)
             ELSE Outcome(Response(up.status, [success |-> FALSE,
                                               error |-> "KMIT API returned",
                                               details |-> up.body]), 1, stored)

get_internal_results(stored, auth, up) == JwtRelay(stored, auth, up)

get_semester_results(stored, auth, up) == JwtRelay(stored, auth, up)

get_timetable(stored, auth, up) == JwtRelay(stored, auth, up)

\* health_check()
health_check(stored) ==
    Outcome(Response(200, [status |-> "healthy"]), 0, stored)

(***************************************************************************)
(* Inputs                                                                  *)
(***************************************************************************)
\* Clock readings 0..MaxTime (CURRENT_TIMESTAMP counts whole seconds).
MaxTime == 1

\* A provider student object carrying every field; v varies the values.
FullStudent(name, htno, rollno, v) ==
    Dict([name |-> Text(name), htno |-> Text(htno), rollno |-> Text(rollno),
          currentyear |-> IntV(v), currentsemester |-> IntV(v + 1),
          student_email |-> Text(<<101, 48 + v>>), phone |-> Text(<<57, 48 + v>>),
          admissionyear |-> IntV(2020 + v), dob |-> Text(<<100, 48 + v>>),
          fathername |-> Text(<<102, 48 + v>>), fathermobile |-> Text(<<56, 48 + v>>),
          gender |-> Text(<<103, 48 + v>>), qr_key |-> Text(<<113, 48 + v>>),
          studenttype |-> Text(<<116, 48 + v>>), status |-> Text(<<115, 48 + v>>),
          branch |-> Dict([name |-> Text(<<67, 48 + v>>), code |-> Text(<<99, 48 + v>>)]),
          course |-> Dict([name |-> Text(<<66, 48 + v>>)]),
          section |-> Dict([name |-> Text(<<65, 48 + v>>)]),
          regulation |-> Dict([name |-> Text(<<82, 48 + v>>)])])

\* name "ab", hall ticket "1", roll number "12"
StudentA == FullStudent(<<97, 98>>, <<49>>, <<49, 50>>, 1)
\* the same hall ticket with every other field different
StudentA2 == FullStudent(<<66>>, <<49>>, <<50>>, 2)
\* name "a", hall ticket "12", roll number "2"
StudentB == FullStudent(<<97>>, <<49, 50>>, <<50>>, 1)
\* only name and hall ticket, every nested object missing
StudentSparse == Dict([name |-> Text(<<66, 49>>), htno |-> Text(<<50>>)])
\* no name
StudentNoName == Dict([htno |-> Text(<<50>>), branch |-> EmptyDict])
\* branch is a string, not an object
StudentBadBranch ==
    Dict([name |-> Text(<<97>>), htno |-> Text(<<50>>), branch |-> Text(<<67>>)])

StudentPool ==
    {StudentA, StudentA2, StudentB, StudentSparse, StudentNoName, StudentBadBranch}

SubPool == {IntV(1), IntV(2)}

JwtHeader == Seg(36, Dict([alg |-> Text(<<72>>)]))
JwtSignature == Seg(43, NotJson)

\* A well-formed token whose payload is the JSON object claims, in a payload
\* segment of len characters.
Jwt(len, claims) == Tok(<<JwtHeader, Seg(len, claims), JwtSignature>>)

TokenOf(sub) == Jwt(11, Dict([sub |-> sub]))

GoodTokens == {TokenOf(sub) : sub \in SubPool} \cup {Jwt(12, Dict([sub |-> IntV(1)]))}

BadTokens ==
    { Jwt(11, EmptyDict),                          \* no sub
      TokenOf(IntV(0)),                            \* sub = 0
      Jwt(11, NotJson),                            \* payload is no JSON
      Jwt(13, Dict([sub |-> IntV(1)])),            \* payload is no base64
      Jwt(11, IntV(7)),                            \* payload is no object
      Tok(<<JwtHeader, Seg(11, Dict([sub |-> IntV(1)]))>>),   \* 2 segments
      Tok(<<JwtHeader, Seg(11, Dict([sub |-> IntV(1)])), JwtSignature, JwtSignature>>) }

TokenPool == GoodTokens \cup BadTokens

\* Bodies of an upstream login response.
LoginBody(token, student) ==
    Dict([Error |-> BoolV(FALSE), access_token |-> token, student |-> student])

LoginBodyPool ==
    {LoginBody(TokenOf(sub), st) : sub \in SubPool, st \in StudentPool}
    \cup {LoginBody(tok, StudentA) : tok \in TokenPool}
    \cup { LoginBody(TokenOf(IntV(1)), Null),
           Dict([Error |-> BoolV(FALSE), access_token |-> TokenOf(IntV(1))]),
           Dict([Error |-> BoolV(FALSE), access_token |-> Null, student |-> StudentA]),
           Dict([Error |-> BoolV(TRUE), message |-> Text(<<109>>)]),
           Dict([error |-> Text(<<101>>)]),
           Dict([student |-> StudentA]),
           [t |-> "list"],
           NotJson }

StatusPool == {200, 201, 204, 403, 500}

LoginUpPool ==
    {UpTimeout, UpNetError}
    \cup {UpResponse(201, b) : b \in LoginBodyPool}
    \cup {UpResponse(st, b) : st \in StatusPool \ {201},
            b \in { Dict([Error |-> BoolV(TRUE), message |-> Text(<<109>>)]),
                    Dict([error |-> Text(<<101>>)]),
                    LoginBody(TokenOf(IntV(1)), StudentA),
                    NotJson }}

\* What the upstream answers to the logins whose cache write is followed: every
\* 201 body, and a complete payload under each other status.
FrameLoginUpPool ==
    {UpTimeout}
    \cup {UpResponse(201, b) : b \in LoginBodyPool}
    \cup {UpResponse(st, LoginBody(TokenOf(IntV(1)), StudentA)) : st \in StatusPool \ {201}}

\* What the upstream answers to login-with-token, whose handler relays the
\* body without looking into it.
LoginTokenUpPool ==
    {UpTimeout, UpNetError}
    \cup {UpResponse(st, b) : st \in StatusPool,
            b \in { LoginBody(TokenOf(IntV(1)), StudentA),
                    Dict([Error |-> BoolV(TRUE), message |-> Text(<<109>>)]),
                    NotJson }}

\* request.get_json() of the two login endpoints.
LoginDataPool ==
    { Null,
      Dict([phoneNumber |-> Text(<<57>>), password |-> Text(<<112>>)]),
      Dict([username |-> Text(<<57>>), password |-> Text(<<112>>),
            application |-> Text(<<110>>), token |-> Text(<<>>)]) }

\* Authorization headers.
AuthPool ==
    {Null, EmptyHeader}
    \cup {Header("Bearer ", tok) : tok \in TokenPool}
    \cup {Header("", TokenOf(IntV(1))), Header("Basic ", TokenOf(IntV(1)))}

DataUpPool ==
    {UpTimeout, UpNetError}
    \cup {UpResponse(st, Dict([payload |-> IntV(1)])) : st \in StatusPool}
    \cup {UpResponse(st, NotJson) : st \in {200, 201, 403}}

DataEndpoints ==
    {"attendance", "subject-attendance", "timetable", "internal-results",
     "semester-results", "notices-count", "student-profile"}

\* The q parameter of a search: "", "   ", "\t ", " 1 ", "1", "12", "a", "B",
\* "%", "z"
QueryPool ==
    { <<>>, <<32, 32, 32>>, <<9, 32>>, <<32, 49, 32>>, <<49>>, <<49, 50>>, <<97>>,
      <<66>>, <<37>>, <<122>> }

\* The queries sent to the one database of SpecStore: "   ", " 1 ", "12", "a", "%"
StoreQueryPool == {<<32, 32, 32>>, <<32, 49, 32>>, <<49, 50>>, <<97>>, <<37>>}

IpPool == {"10.0.0.1"}

TiePool == {"asc", "desc"}

\* A search runs without fault or meets the failing log INSERT.
FaultPool == {Null, LogFault}

(***************************************************************************)
(* The service: one request after the other                                *)
(***************************************************************************)
Request(ep, arg, up) == [ep |-> ep, arg |-> arg, up |-> up]

\* The handler bound to a data endpoint.
DataHandler(ep, stored, auth, up) ==
    CASE ep = "attendance" -> get_attendance(stored, auth, up)
      [] ep = "subject-attendance" -> get_subject_attendance(stored, auth, up)
      [] ep = "timetable" -> get_timetable(stored, auth, up)
      [] ep = "internal-results" -> get_internal_results(stored, auth, up)
      [] ep = "semester-results" -> get_semester_results(stored, auth, up)
      [] ep = "notices-count" -> get_notices_count(stored, auth, up)
      [] ep = "student-profile" -> get_student_profile_direct(stored, auth, up)

\* The module is imported: init_db() has run.
Init ==
    /\ db = init_db(EmptyDb)
    /\ req = Request("none", Null, Null)
    /\ resp = Response(0, [status |-> "none"])
    /\ calls = 0
    /\ now = 0
    /\ upserts = <<>>

Finish(o, r) ==
    /\ db' = o.db
    /\ resp' = o.resp
    /\ calls' = o.calls
    /\ req' = r
    /\ UNCHANGED <<now, upserts>>

Login ==
    \E data \in LoginDataPool, up \in LoginUpPool :
        Finish(login(db, data, up, now), Request("login", data, up))

LoginWithToken ==
    \E data \in LoginDataPool, up \in LoginTokenUpPool :
        Finish(login_with_token_direct(db, data, up), Request("login-with-token", data, up))

Data ==
    \E ep \in DataEndpoints, auth \in AuthPool, up \in DataUpPool :
        Finish(DataHandler(ep, db, auth, up), Request(ep, auth, up))

Search ==
    \E rawq \in QueryPool, ip \in IpPool, tie \in TiePool, fault \in FaultPool :
        LET r == search_students(db, rawq, ip, tie, now, fault)
        IN  Finish(Outcome(r.resp, 0, r.db), Request("search", rawq, fault))

Health == Finish(health_check(db), Request("health", Null, Null))

\* A second passes.
Tick ==
    /\ now < MaxTime
    /\ now' = now + 1
    /\ UNCHANGED <<db, req, resp, calls, upserts>>

Next == Login \/ LoginWithToken \/ Data \/ Search \/ Health \/ Tick

Spec == Init /\ [][Next]_vars

(***************************************************************************)
(* The statements of store_student_data and search_students on one         *)
(* database that carries init_db's schema (the connection on which         *)
(* init_db ran its CREATE TABLE statements), within one clock second.      *)
(***************************************************************************)
\* Searches logged at most.
MaxLog == 1

InitStore ==
    /\ db = CreateTables(Connect(EmptyDb))
    /\ req = Request("none", Null, Null)
    /\ resp = Response(0, [status |-> "none"])
    /\ calls = 0
    /\ now = 0
    /\ upserts = <<>>

UpsertOnConn ==
    \E sub \in SubPool, st \in StudentPool \cup {Null} :
        LET data == LoginBody(TokenOf(sub), st)
            r == StoreOnConn(db, data, sub, now)
        IN  /\ db' = r.db
            /\ req' = Request("upsert", data, sub)
            /\ resp' = Response(0, [ok |-> r.ok])
            /\ UNCHANGED <<calls, now, upserts>>

SearchConn ==
    \E rawq \in StoreQueryPool, ip \in IpPool, tie \in TiePool, fault \in FaultPool :
        /\ Len(db.search_history) < MaxLog
        /\ LET r == SearchOnConn(db, rawq, ip, tie, now, fault)
           IN  /\ db' = r.db
               /\ req' = Request("search", rawq, fault)
               /\ resp' = r.resp
               /\ UNCHANGED <<calls, now, upserts>>

NextStore == UpsertOnConn \/ SearchConn

SpecStore == InitStore /\ [][NextStore]_vars

(***************************************************************************)
(* The SELECT of search_students as a function of the rows of students     *)
(* and the query.                                                          *)
(***************************************************************************)
\* Rows of the largest table.
MaxRows == 22

NamePool == << <<97>>, <<66>>, <<97, 49, 50>>, <<98>>, <<65, 49>> >>

\* Hall tickets "01", "02", ...
HallTicket(i) == <<48 + (i \div 10), 48 + (i % 10)>>

\* Row i of a table: k spreads the names, roll is the roll number of all rows.
TableRow(i, k, roll) ==
    InsertedRow(i, IntV(i),
                Dict([name |-> Text(NamePool[((i * k) % Len(NamePool)) + 1]),
                      htno |-> Text(HallTicket(i)),
                      rollno |-> roll]),
                0)

Table(n, k, roll) ==
    [CreateTables(EmptyDb) EXCEPT !.students = {TableRow(i, k, roll) : i \in 1..n},
                                  !.lastId = n]

RollPool == {Null, Text(<<120, 49, 50>>)}

InitQuery ==
    /\ \E n \in 0..MaxRows, k \in 1..3, roll \in RollPool : db = Table(n, k, roll)
    /\ \E q \in QueryPool \cup {HallTicket(12)} :
          Strip(q) # <<>> /\ req = Request("query", Strip(q), Null)
    /\ resp = Response(0, [status |-> "none"])
    /\ calls = 0
    /\ now = 0
    /\ upserts = <<>>

\* cursor.execute(SELECT ...); cursor.fetchall()
RunSelect ==
    /\ req.ep = "query"
    /\ \E tie \in TiePool :
          resp' = Response(0, [rows |-> SearchSelect(db.students, req.arg, tie)])
    /\ req' = Request("selected", req.arg, Null)
    /\ UNCHANGED <<db, calls, now, upserts>>

NextQuery == RunSelect

SpecQuery == InitQuery /\ [][NextQuery]_vars

(***************************************************************************)
(* Two store_student_data calls for one kmit_id running at once, each on   *)
(* its own connection to one database that carries init_db's schema. A     *)
(* call is the steps SELECT, UPDATE or INSERT, commit. SQLite lets one     *)
(* connection write at a time: a second writer waits for the commit of     *)
(* the first. Uncommitted rows are seen by no other connection.            *)
(***************************************************************************)
Procs == {1, 2}

\* The kmit_id both calls store.
RaceId == IntV(1)

RacePool == {StudentA, StudentA2, StudentB, StudentSparse}

\* A call of store_student_data(student_data, kmit_id) in flight: pc is the
\* statement it runs next, existing what its SELECT found, conn its
\* connection's database, ok whether it committed, order the place of its
\* UPDATE / INSERT among the write statements run (0: none yet).
Upsert(pc, student_data, existing, conn, ok, order) ==
    [pc |-> pc, student_data |-> student_data, kmit_id |-> RaceId,
     existing |-> existing, conn |-> conn, ok |-> ok, order |-> order]

\* The record a login of RaceId stored earlier.
EarlierRow == InsertedRow(1, RaceId, StudentB, 0)

InitRace ==
    /\ \E rows \in {{}, {EarlierRow}} :
          db = [CreateTables(Connect(EmptyDb)) EXCEPT !.students = rows,
                                                      !.lastId = Cardinality(rows)]
    /\ \E st \in [Procs -> RacePool] :
          /\ \A p, q \in Procs : p # q => st[p] # st[q]
          /\ upserts = [p \in Procs |->
                          Upsert("select", LoginBody(TokenOf(RaceId), st[p]),
                                 FALSE, Null, FALSE, 0)]
    /\ req = Request("none", Null, Null)
    /\ resp = Response(0, [status |-> "none"])
    /\ calls = 0
    /\ now = 0

\* The write statements run so far.
Written == Cardinality({p \in Procs : upserts[p].order > 0})

\* Another connection holds the write lock: it wrote and has not committed.
Locked(p) == \E q \in Procs \ {p} : upserts[q].pc = "commit"

\* cursor.execute('SELECT id FROM students WHERE kmit_id = ?'); fetchone()
RaceSelect(p) ==
    /\ upserts[p].pc = "select"
    /\ upserts' = [upserts EXCEPT ![p].pc = "write",
                                  ![p].existing = SelectExisting(db, upserts[p].kmit_id)]
    /\ UNCHANGED <<db, req, resp, calls, now>>

\* cursor.execute(UPDATE ...) or cursor.execute(INSERT ...): an exception
\* ends the call in its except branch.
RaceWrite(p) ==
    /\ upserts[p].pc = "write"
    /\ ~Locked(p)
    /\ LET u == upserts[p]
           r == WriteOnConn(db, u.student_data, u.kmit_id, u.existing, now)
       IN  upserts' = [upserts EXCEPT ![p].pc = IF r.ok THEN "commit" ELSE "done",
                                      ![p].conn = r.db,
                                      ![p].order = Written + 1]
    /\ UNCHANGED <<db, req, resp, calls, now>>

\* conn.commit(); conn.close()
RaceCommit(p) ==
    /\ upserts[p].pc = "commit"
    /\ db' = upserts[p].conn
    /\ upserts' = [upserts EXCEPT ![p].pc = "done", ![p].ok = TRUE]
    /\ UNCHANGED <<req, resp, calls, now>>

NextRace == \E p \in Procs : RaceSelect(p) \/ RaceWrite(p) \/ RaceCommit(p)

SpecRace == InitRace /\ [][NextRace]_vars

(***************************************************************************)
(* The requests of the service with the cache write of login applied to    *)
(* one database that carries init_db's schema: what a login stores, and    *)
(* what the other requests leave alone.                                    *)
(***************************************************************************)
\* request.get_json() of a login that reaches the upstream.
Credentials == Dict([phoneNumber |-> Text(<<57>>), password |-> Text(<<112>>)])

\* request.get_json() of a login-with-token that reaches the upstream.
LoginTokenData ==
    Dict([username |-> Text(<<57>>), password |-> Text(<<112>>),
          application |-> Text(<<110>>), token |-> Text(<<>>)])

FrameAuthPool == {Null, Header("Bearer ", TokenOf(IntV(1)))}

FrameUpPool == {UpTimeout, UpResponse(200, Dict([payload |-> IntV(1)]))}

\* The q parameter of the searches: "a"
FrameQueryPool == {<<97>>}

\* login(): its answer, and its cache write (reached on the path that
\* answers with success, lines 209-248) on the one database.
LoginOnConn ==
    \E data \in {Null, Credentials}, up \in FrameLoginUpPool :
        LET o == login(db, data, up, now)
        IN  /\ data = Null => up = UpTimeout
            /\ db' = IF HasSuccessBody(o.resp)
                     THEN LoginStoreOnConn(db, up.body, now)
                     ELSE db
            /\ resp' = o.resp
            /\ calls' = o.calls
            /\ req' = Request("login", data, up)
            /\ UNCHANGED <<now, upserts>>

\* login_with_token_direct(): it opens no connection.
LoginWithTokenOnConn ==
    \E up \in {UpTimeout, UpResponse(201, LoginBody(TokenOf(IntV(2)), StudentB))} :
        Finish(login_with_token_direct(db, LoginTokenData, up),
               Request("login-with-token", LoginTokenData, up))

\* The data endpoints: they open no connection.
DataOnConn ==
    \E ep \in DataEndpoints, auth \in FrameAuthPool, up \in FrameUpPool :
        Finish(DataHandler(ep, db, auth, up), Request(ep, auth, up))

\* search_students() on the one database.
SearchAfterLogin ==
    \E rawq \in FrameQueryPool, ip \in IpPool, fault \in FaultPool :
        /\ Len(db.search_history) < MaxLog
        /\ LET r == SearchOnConn(db, rawq, ip, "asc", now, fault)
           IN  /\ db' = r.db
               /\ req' = Request("search", rawq, fault)
               /\ resp' = r.resp
               /\ calls' = 0
               /\ UNCHANGED <<now, upserts>>

NextLogin ==
    LoginOnConn \/ LoginWithTokenOnConn \/ DataOnConn \/ SearchAfterLogin \/ Health

SpecLogin == InitStore /\ [][NextLogin]_vars

(***************************************************************************)
(* Properties                                                              *)
(***************************************************************************)
\* The student store and the search log: what a connection opened next finds.
StudentStore == db.students
SearchLog == db.search_history

HasSuccess(r, b) == "success" \in DOMAIN r.body /\ r.body.success = b

\* The request got an answer from the upstream.
Answered(r) == r.up # Null /\ r.up.kind = "response"

\* A token of 3 segments whose payload decodes to a JSON object with a sub.
CarriesSub(token) ==
    /\ token.t = "token"
    /\ Len(token.segs) = 3
    /\ token.segs[2].len % 4 # 1
    /\ token.segs[2].json.t = "dict"
    /\ "sub" \in DOMAIN token.segs[2].json.d

SubOfToken(token) == token.segs[2].json.d["sub"]

\* A provider payload with a student object that has a name and a hall ticket.
HasStudent(body) ==
    /\ "student" \in DOMAIN body.d
    /\ body.d["student"].t = "dict"
    /\ Get(body.d["student"], "name").t = "text"
    /\ Get(body.d["student"], "htno").t = "text"

\* A login request answered 201 with Error == false, an access_token that
\* carries a sub, and a student object.
UpsertingLogin(r) ==
    /\ r.ep = "login"
    /\ r.arg.t = "dict"
    /\ Answered(r)
    /\ r.up.status = 201
    /\ r.up.body.t = "dict"
    /\ Get(r.up.body, "Error") = BoolV(FALSE)
    /\ "access_token" \in DOMAIN r.up.body.d
    /\ CarriesSub(r.up.body.d["access_token"])
    /\ HasStudent(r.up.body)

LoginSub(r) == SubOfToken(r.up.body.d["access_token"])

\* The record is the snapshot of the provider payload of login request r.
BuiltFrom(row, r) ==
    LET student == GetDefault(r.up.body, "student", EmptyDict)
    IN  /\ student.t = "dict"
        /\ \A c \in DOMAIN FlatKey : row[c] = Get(student, FlatKey[c])
        /\ \A c \in DOMAIN NestedKey :
              row[c] = IF Get(student, NestedKey[c][1]).t = "dict"
                       THEN Get(Get(student, NestedKey[c][1]), NestedKey[c][2])
                       ELSE Null

\* C1: after a login answered 201 with Error == false, a student object and
\* a token carrying sub = S, the student store holds a record with upstreamId = S built from
\* the upstream payload, and the response has success = true.
C1_LoginStoresStudent ==
    UpsertingLogin(req) =>
        /\ \E row \in StudentStore : row["kmit_id"] = LoginSub(req) /\ BuiltFrom(row, req)
        /\ HasSuccess(resp, TRUE)

\* C2: two upserts of the same upstreamId with different payloads, one after
\* the other, leave exactly one record of that upstreamId, every mapped field
\* of it is the second payload's, and lastUpdated did not go back.
C2_SecondUpsertWins ==
    [][(/\ UpsertingLogin(req) /\ UpsertingLogin(req')
        /\ LoginSub(req) = LoginSub(req')
        /\ Get(req.up.body, "student") # Get(req'.up.body, "student"))
       => /\ Cardinality({row \in StudentStore' : row["kmit_id"] = LoginSub(req')}) = 1
          /\ \A row \in StudentStore' :
                row["kmit_id"] = LoginSub(req') =>
                   /\ BuiltFrom(row, req')
                   /\ \A old \in StudentStore :
                         old["kmit_id"] = row["kmit_id"] =>
                            old["last_updated"].n <= row["last_updated"].n]_vars

\* No two records share an upstreamId or a hall ticket.
UniqueKeys(students) ==
    \A r1, r2 \in students :
        r1 # r2 => r1["kmit_id"] # r2["kmit_id"] /\ r1["hall_ticket"] # r2["hall_ticket"]

\* The upsert request r brings a new upstreamId with a hall ticket that a
\* record of students holds.
HallTicketTaken(r, students) ==
    /\ r.ep = "upsert"
    /\ r.arg.d["student"].t = "dict"
    /\ \A row \in students : row["kmit_id"] # r.up
    /\ \E row \in students : row["hall_ticket"] = Get(r.arg.d["student"], "htno")

IsBlank(q) == \A i \in 1..Len(q) : q[i] \in {9, 10, 13, 32}

\* C4: a search with an empty or whitespace-only query is answered 400 with
\* the invalid-query error, and the search log is what it was before.
C4_BlankQueryRejected ==
    [][(req'.ep = "search" /\ IsBlank(req'.arg))
       => /\ resp'.status = 400
          /\ resp'.body = [success |-> FALSE, error |-> "Search query is required"]
          /\ SearchLog' = SearchLog]_vars

C4_Witness == req.ep = "search" /\ req.arg = <<32, 32, 32>> /\ resp.status = 400

\* The rows of the table that the query matches.
Matching(students, query) == {r \in students : Matches(r, query)}

\* C5: the SELECT returns at most 20 rows, however many match.
C5_AtMostTwenty == req.ep = "selected" => Len(resp.body.rows) <= 20

C5_Witness ==
    /\ req.ep = "selected"
    /\ Cardinality(Matching(db.students, req.arg)) > 20
    /\ Len(resp.body.rows) = 20

\* The three ranks of a matching row: its hall ticket is the query; else its
\* name matches; else it matches otherwise.
ExactTicket(r, query) == r["hall_ticket"].t = "text" /\ r["hall_ticket"].s = query
NameMatch(r, query) == Like(r["name"], Pattern(query))
RankOf(r, query) ==
    IF ExactTicket(r, query) THEN 1 ELSE IF NameMatch(r, query) THEN 2 ELSE 3

\* r sorts strictly before o.
Precedes(r, o, query) ==
    \/ RankOf(r, query) < RankOf(o, query)
    \/ RankOf(r, query) = RankOf(o, query) /\ ValLess(r["name"], o["name"])

IsTrimOf(q, raw) ==
    /\ q # <<>>
    /\ ~IsBlank(<<q[1]>>) /\ ~IsBlank(<<q[Len(q)]>>)
    /\ \E i \in 0..(Len(raw) - Len(q)) :
          /\ SubSeq(raw, i + 1, i + Len(q)) = q
          /\ IsBlank(SubSeq(raw, 1, i))
          /\ IsBlank(SubSeq(raw, i + Len(q) + 1, Len(raw)))

C8_NoHeaderUnauthorized ==
    (req.ep \in DataEndpoints /\ req.arg = Null) =>
        /\ resp.status = 401
        /\ calls = 0
        /\ req.ep = "attendance" =>
              resp.body = [success |-> FALSE, error |-> "No authorization token"]

C8_Witness ==
    /\ req.ep = "attendance" /\ req.arg = Null
    /\ req.up = UpResponse(200, Dict([payload |-> IntV(1)]))
    /\ resp.status = 401

\* A login request that the upstream answered.
AnsweredLogin(r) ==
    /\ r.ep \in {"login", "login-with-token"}
    /\ r.arg.t = "dict"
    /\ r.ep = "login-with-token" => LoginTokenKeys \subseteq DOMAIN r.arg.d
    /\ Answered(r)

\* C9: a login that the upstream answers with another status than 201 is
\* answered 400 with success = false and status_code the upstream status,
\* and the student store stays as it was.
C9_LoginOnly201 ==
    [][(AnsweredLogin(req') /\ req'.up.status # 201)
       => /\ resp'.status = 400
          /\ HasSuccess(resp', FALSE)
          /\ "status_code" \in DOMAIN resp'.body
          /\ resp'.body.status_code = req'.up.status
          /\ StudentStore' = StudentStore]_vars

C9_Witness ==
    /\ AnsweredLogin(req) /\ req.ep = "login" /\ req.up.status = 403
    /\ resp.status = 400 /\ resp.body.status_code = 403

\* C10: an endpoint whose upstream call timed out answers 408 or 504 with a
\* timeout message and without data.
C10_TimeoutStatus ==
    (calls = 1 /\ req.up = UpTimeout) =>
        /\ resp.status \in {408, 504}
        /\ resp.body.error = "Request timeout"
        /\ "data" \notin DOMAIN resp.body

\* A login request that the upstream answered 201 with a JSON object.
Login201(r) ==
    /\ r.ep = "login"
    /\ r.arg.t = "dict"
    /\ Answered(r)
    /\ r.up.status = 201
    /\ r.up.body.t = "dict"

\* The login request r called the upsert: Error == false and an access_token
\* carrying a truthy sub.
CallsUpsert(r) ==
    /\ Login201(r)
    /\ Get(r.up.body, "Error") = BoolV(FALSE)
    /\ "access_token" \in DOMAIN r.up.body.d
    /\ CarriesSub(r.up.body.d["access_token"])
    /\ LoginSub(r) \notin {Null, IntV(0)}

\* The record of login request r is in students.
UpsertDone(r, students) ==
    /\ CallsUpsert(r)
    /\ \E row \in students : row["kmit_id"] = LoginSub(r) /\ BuiltFrom(row, r)

\* C11: a login answered 201 with a JSON object is answered with success =
\* true whether its upsert succeeded or failed, and when the upsert did not
\* store the record the student store is what it was before.
C11_StoreFailureSwallowed ==
    [][Login201(req')
       => /\ resp'.status = 200
          /\ HasSuccess(resp', TRUE)
          /\ ~UpsertDone(req', StudentStore') => StudentStore' = StudentStore]_vars

C11_Witness ==
    /\ CallsUpsert(req)
    /\ HasStudent(req.up.body)
    /\ ~UpsertDone(req, StudentStore)
    /\ HasSuccess(resp, TRUE)

\* The status the handler of endpoint ep takes as success.
SuccessStatus(ep) == IF ep \in {"login", "login-with-token"} THEN 201 ELSE 200

\* The upstream call of request r timed out, failed in transport, or was
\* answered with a non-success status.
UpstreamFailed(r) ==
    /\ r.up # Null
    /\ \/ r.up.kind \in {"timeout", "neterror"}
       \/ r.up.kind = "response" /\ r.up.status # SuccessStatus(r.ep)

\* C12: a request sends at most one request to the upstream, and a request
\* whose upstream call failed is answered with a failure after that one call.
C12_NoRetry ==
    /\ calls \in {0, 1}
    /\ (calls > 0 /\ UpstreamFailed(req)) => calls = 1 /\ ~HasSuccess(resp, TRUE)

C12_Witness ==
    /\ req.ep = "subject-attendance"
    /\ req.up = UpTimeout
    /\ calls = 1
    /\ resp.status = 500

\* An Authorization header that is present but malformed: no 'Bearer '
\* prefix, a token of other than 3 segments, or a payload segment that is no
\* base64 text or decodes to no JSON.
Malformed(h) ==
    /\ h.t = "header"
    /\ ~HeaderMissing(h)
    /\ \/ h.prefix # "Bearer "
       \/ Len(h.token.segs) # 3
       \/ h.token.segs[2].len % 4 = 1
       \/ h.token.segs[2].json = NotJson

\* C13: a data endpoint answers a request whose Authorization header is
\* present but malformed with 401 and sends nothing to the upstream.
C13_MalformedUnauthorized ==
    (req.ep \in DataEndpoints /\ Malformed(req.arg)) =>
        /\ resp.status = 401
        /\ calls = 0

\* A token of 3 segments whose payload decodes to a JSON object without sub.
NoSub(token) ==
    /\ token.t = "token"
    /\ Len(token.segs) = 3
    /\ token.segs[2].len % 4 # 1
    /\ token.segs[2].json.t = "dict"
    /\ "sub" \notin DOMAIN token.segs[2].json.d

\* The data endpoints that extract the subject from the bearer token.
SubEndpoints == {"attendance", "timetable", "internal-results", "semester-results"}

\* C14: a 3-segment token whose JSON payload has no sub is an error wherever
\* the subject is extracted: a data endpoint answers with an error and sends
\* nothing to the upstream, and login leaves the student store as it was.
C14_MissingSubIsError ==
    [][/\ (/\ req'.ep \in SubEndpoints
           /\ req'.arg.t = "header"
           /\ req'.arg.prefix = "Bearer "
           /\ NoSub(req'.arg.token))
          => /\ resp'.status >= 400
             /\ ~HasSuccess(resp', TRUE)
             /\ calls' = 0
       /\ (/\ Login201(req')
           /\ "access_token" \in DOMAIN req'.up.body.d
           /\ NoSub(req'.up.body.d["access_token"]))
          => StudentStore' = StudentStore]_vars

\* The response carries the body the upstream sent.
CarriesUpstreamBody(r, q) ==
    \E k \in {"details", "response"} \cap DOMAIN r.body : r.body[k] = q.up.body

\* C15: a data endpoint answers with success = true exactly when the
\* upstream answered 200 with a JSON body, and answers every other upstream
\* status with a failure that carries the upstream's body.
C15_SuccessIff200 ==
    req.ep \in DataEndpoints =>
        /\ HasSuccess(resp, TRUE) => calls = 1 /\ Answered(req)
        /\ (calls = 1 /\ Answered(req)) =>
              /\ HasSuccess(resp, TRUE) <=> (req.up.status = 200 /\ req.up.body # NotJson)
              /\ req.up.status # 200 =>
                    /\ ~HasSuccess(resp, TRUE)
                    /\ CarriesUpstreamBody(resp, req)

SubsetOfFields(body) ==
    /\ "student" \in DOMAIN body.d
    /\ body.d["student"].t = "dict"
    /\ \A c \in DOMAIN NestedKey :
          Get(body.d["student"], NestedKey[c][1]).t \in {"null", "dict"}

WroteLast(p) == \A q \in Procs : upserts[q].order <= upserts[p].order

ContainedIn(q, student) ==
    \E k \in {"name", "htno", "rollno"} :
        /\ Get(student, k).t = "text"
        /\ Contains(Get(student, k).s, q)

\* C19: a search that follows a login upserting student S, with a query
\* contained in S's name, hall ticket or roll number, is answered with
\* success and S among the records.
C19_StoredIsVisible ==
    [][(/\ UpsertingLogin(req)
        /\ req'.ep = "search"
        /\ req'.up = Null
        /\ Strip(req'.arg) # <<>>
        /\ ContainedIn(Strip(req'.arg), req.up.body.d["student"]))
       => /\ HasSuccess(resp', TRUE)
          /\ \E i \in 1..Len(resp'.body.data.students) :
                resp'.body.data.students[i]["kmit_id"] = LoginSub(req)]_vars

\* C20: a body with success = false is never sent with a 2xx status: a
\* failure is answered 4xx or 5xx whatever status the upstream returned.
C20_FailureNever2xx ==
    HasSuccess(resp, FALSE) => resp.status >= 400 /\ resp.status <= 599

====
